---- MODULE Spec2Model ----
(***************************************************************************)
(* Model of the Feedstock class of src/src/feedstock.py: the construction  *)
(* of a Feedstock from a data dictionary and the basis conversions and     *)
(* lumped yields it derives.                                               *)
(*                                                                         *)
(* Numbers.  The program computes with numpy float64 values.  A number is  *)
(* modelled as a pair <<n, d>> of integers in lowest terms with d >= 0:    *)
(* d > 0 is the real number n/d, and d = 0 is one of the three special     *)
(* values a float64 division can produce, <<1, 0>> = inf, <<-1, 0>> = -inf *)
(* and <<0, 0>> = nan.  The arithmetic is exact: the rounding of float64   *)
(* is not modelled, so "equal" below means equal as real numbers.          *)
(*                                                                         *)
(* None is modelled as the empty tuple <<>>; an ndarray is a non-empty     *)
(* tuple of numbers.                                                       *)
(***************************************************************************)
EXTENDS Integers, Sequences, FiniteSets, TLC

(***************************************************************************)
(* Bounds of the model                                                     *)
(***************************************************************************)
\* number of grid levels 0..MaxLevel each input component is drawn from
MaxLevel == 2

\* number of calc_biocomp calls made on one Feedstock
MaxCalls == 2

\* the values of `time` given to the batch reactor are drawn from 0..MaxTime
MaxTime == 3

\* largest number of CSTRs in series given to run_cstr_simulation
MaxCstrs == 3

\* largest number of entries of data/feedstocks.json a driver script reads
MaxFeedstocks == 2

(***************************************************************************)
(* float64 arithmetic (exact, with inf and nan)                            *)
(***************************************************************************)
Abs(x) == IF x < 0 THEN -x ELSE x

Sign(x) == IF x < 0 THEN -1 ELSE IF x > 0 THEN 1 ELSE 0

RECURSIVE Gcd(_, _)
Gcd(a, b) == IF b = 0 THEN a ELSE Gcd(b, a % b)

\* the number n/d in lowest terms, d >= 0; n/0 is inf, -inf or nan
Norm(n, d) ==
    IF d = 0 THEN <<Sign(n), 0>>
    ELSE LET g == Gcd(Abs(n), Abs(d))
             s == Sign(d)
         IN  <<(s * n) \div g, (s * d) \div g>>

Q(n) == <<n, 1>>

NaN == <<0, 0>>

Inf == <<1, 0>>

IsFinite(a) == a[2] # 0

IsNaN(a) == a = NaN

\* a + b
FAdd(a, b) ==
    IF a[2] = 0 /\ b[2] = 0
    THEN (IF a = b THEN a ELSE NaN)
    ELSE IF a[2] = 0 THEN a
    ELSE IF b[2] = 0 THEN b
    ELSE LET g == Gcd(a[2], b[2])
         IN  Norm(a[1] * (b[2] \div g) + b[1] * (a[2] \div g),
                  (a[2] \div g) * b[2])

\* -a
FNeg(a) == <<-a[1], a[2]>>

\* a - b
FSub(a, b) == FAdd(a, FNeg(b))

\* a * b
FMul(a, b) ==
    IF a[2] = 0 \/ b[2] = 0
    THEN <<Sign(a[1]) * Sign(b[1]), 0>>
    ELSE LET g1 == Gcd(Abs(a[1]), b[2])
             g2 == Gcd(Abs(b[1]), a[2])
         IN  Norm((a[1] \div g1) * (b[1] \div g2),
                  (a[2] \div g2) * (b[2] \div g1))

\* 1 / b   (1/0 = inf, 1/inf = 0, 1/nan = nan)
FRecip(b) ==
    IF b = NaN THEN NaN
    ELSE IF b[2] = 0 THEN <<0, 1>>
    ELSE IF b[1] < 0 THEN <<-b[2], -b[1]>>
    ELSE <<b[2], b[1]>>

\* a / b
FDiv(a, b) == FMul(a, FRecip(b))

\* a > b (false when either is nan)
FGt(a, b) ==
    IF a = NaN \/ b = NaN THEN FALSE
    ELSE IF a[2] = 0 /\ b[2] = 0 THEN a[1] > b[1]
    ELSE IF a[2] = 0 THEN a[1] > 0
    ELSE IF b[2] = 0 THEN b[1] < 0
    ELSE a[1] * b[2] > b[1] * a[2]

\* a == b as float64 compares (nan equals nothing, not even nan)
FEq(a, b) == a # NaN /\ b # NaN /\ a = b

\* sum(x) of a sequence of numbers, left to right from 0
RECURSIVE FSum(_)
FSum(x) == IF Len(x) = 0 THEN Q(0)
           ELSE FAdd(FSum(SubSeq(x, 1, Len(x) - 1)), x[Len(x)])

\* x * k and x / k, elementwise on an ndarray
VMul(x, k) == [i \in 1..Len(x) |-> FMul(x[i], k)]

VDiv(x, k) == [i \in 1..Len(x) |-> FDiv(x[i], k)]

None == <<>>

(***************************************************************************)
(* Feedstock: the values derived from the input data                       *)
(***************************************************************************)
\* variant: the factor 100 is left out
NormExpYieldFraction(yield) == VDiv(yield, FSum(yield))

\* __init__: np.array(yield) / sum(np.array(yield)) * 100
NormExpYield(yield) == VMul(VDiv(yield, FSum(yield)), Q(100))

\* variant: the air-dry loss is not added back
ProxMarNoLoss(M_ad, ADL) ==
    FDiv(FMul(M_ad, FSub(Q(100), Q(ADL))), Q(100))

\* _prox_bases: as-received moisture from as-determined moisture
ProxMar(M_ad, ADL) ==
    FAdd(FDiv(FMul(M_ad, FSub(Q(100), Q(ADL))), Q(100)), Q(ADL))

\* _prox_bases: [FC_ar, VM_ar, ash_ar, M_ar]
ProxAr(prox_ad, ADL) ==
    LET FC_ad  == prox_ad[1]
        VM_ad  == prox_ad[2]
        ash_ad == prox_ad[3]
        M_ad   == prox_ad[4]
        M_ar   == ProxMar(M_ad, ADL)
        FC_ar  == FDiv(FMul(FC_ad, FSub(Q(100), M_ar)), FSub(Q(100), M_ad))
        VM_ar  == FDiv(FMul(VM_ad, FSub(Q(100), M_ar)), FSub(Q(100), M_ad))
        ash_ar == FDiv(FMul(ash_ad, FSub(Q(100), M_ar)), FSub(Q(100), M_ad))
    IN  <<FC_ar, VM_ar, ash_ar, M_ar>>

\* _prox_bases: [FC_d, VM_d, ash_d]
ProxD(prox_ad) ==
    LET FC_ad  == prox_ad[1]
        VM_ad  == prox_ad[2]
        ash_ad == prox_ad[3]
        M_ad   == prox_ad[4]
        FC_d   == FDiv(FMul(FC_ad, Q(100)), FSub(Q(100), M_ad))
        VM_d   == FDiv(FMul(VM_ad, Q(100)), FSub(Q(100), M_ad))
        ash_d  == FDiv(FMul(ash_ad, Q(100)), FSub(Q(100), M_ad))
    IN  <<FC_d, VM_d, ash_d>>

\* variant: the ash is not taken out of the divisor
ProxDafWithAsh(prox_ad) ==
    LET FC_ad  == prox_ad[1]
        VM_ad  == prox_ad[2]
        M_ad   == prox_ad[4]
        FC_daf == FDiv(FMul(FC_ad, Q(100)), FSub(Q(100), M_ad))
        VM_daf == FDiv(FMul(VM_ad, Q(100)), FSub(Q(100), M_ad))
    IN  <<FC_daf, VM_daf>>

\* _prox_bases: [FC_daf, VM_daf]
ProxDaf(prox_ad) ==
    LET FC_ad  == prox_ad[1]
        VM_ad  == prox_ad[2]
        ash_ad == prox_ad[3]
        M_ad   == prox_ad[4]
        FC_daf == FDiv(FMul(FC_ad, Q(100)), FSub(FSub(Q(100), M_ad), ash_ad))
        VM_daf == FDiv(FMul(VM_ad, Q(100)), FSub(FSub(Q(100), M_ad), ash_ad))
    IN  <<FC_daf, VM_daf>>

\* the float literals 0.1119 and 0.8881 of _ult_bases
HFrac == Norm(1119, 10000)

OFrac == Norm(8881, 10000)

\* _ult_bases: as-received moisture from as-determined moisture
UltMar(M_ad, ADL) ==
    FAdd(FMul(M_ad, FDiv(FSub(Q(100), Q(ADL)), Q(100))), Q(ADL))

\* _ult_bases: [C_ar, H_ar, O_ar, N_ar, S_ar, ash_ar, M_ar]
UltAr(ult_ad, ADL) ==
    LET C_ad   == ult_ad[1]
        H_ad   == ult_ad[2]
        O_ad   == ult_ad[3]
        N_ad   == ult_ad[4]
        S_ad   == ult_ad[5]
        ash_ad == ult_ad[6]
        M_ad   == ult_ad[7]
        M_ar   == UltMar(M_ad, ADL)
        num    == FSub(Q(100), M_ar)
        den    == FSub(Q(100), M_ad)
        C_ar   == FDiv(FMul(C_ad, num), den)
        H_ar   == FDiv(FMul(FSub(H_ad, FMul(HFrac, M_ad)), num), den)
        O_ar   == FDiv(FMul(FSub(O_ad, FMul(OFrac, M_ad)), num), den)
        N_ar   == FDiv(FMul(N_ad, num), den)
        S_ar   == FDiv(FMul(S_ad, num), den)
        ash_ar == FDiv(FMul(ash_ad, num), den)
    IN  <<C_ar, H_ar, O_ar, N_ar, S_ar, ash_ar, M_ar>>

\* variant: the moisture's hydrogen and oxygen stay in the dry basis
UltDWithMoisture(ult_ad) ==
    LET den == FSub(Q(100), ult_ad[7])
    IN  [i \in 1..6 |-> FDiv(FMul(ult_ad[i], Q(100)), den)]

\* _ult_bases: [C_d, H_d, O_d, N_d, S_d, ash_d]
UltD(ult_ad) ==
    LET C_ad   == ult_ad[1]
        H_ad   == ult_ad[2]
        O_ad   == ult_ad[3]
        N_ad   == ult_ad[4]
        S_ad   == ult_ad[5]
        ash_ad == ult_ad[6]
        M_ad   == ult_ad[7]
        den    == FSub(Q(100), M_ad)
        C_d    == FDiv(FMul(C_ad, Q(100)), den)
        H_d    == FDiv(FMul(FSub(H_ad, FMul(HFrac, M_ad)), Q(100)), den)
        O_d    == FDiv(FMul(FSub(O_ad, FMul(OFrac, M_ad)), Q(100)), den)
        N_d    == FDiv(FMul(N_ad, Q(100)), den)
        S_d    == FDiv(FMul(S_ad, Q(100)), den)
        ash_d  == FDiv(FMul(ash_ad, Q(100)), den)
    IN  <<C_d, H_d, O_d, N_d, S_d, ash_d>>

\* _ult_bases: [C_daf, H_daf, O_daf, N_daf, S_daf]
UltDaf(ult_ad) ==
    LET C_ad   == ult_ad[1]
        H_ad   == ult_ad[2]
        O_ad   == ult_ad[3]
        N_ad   == ult_ad[4]
        S_ad   == ult_ad[5]
        ash_ad == ult_ad[6]
        M_ad   == ult_ad[7]
        den    == FSub(FSub(Q(100), M_ad), ash_ad)
        C_daf  == FDiv(FMul(C_ad, Q(100)), den)
        H_daf  == FDiv(FMul(FSub(H_ad, FMul(HFrac, M_ad)), Q(100)), den)
        O_daf  == FDiv(FMul(FSub(O_ad, FMul(OFrac, M_ad)), Q(100)), den)
        N_daf  == FDiv(FMul(N_ad, Q(100)), den)
        S_daf  == FDiv(FMul(S_ad, Q(100)), den)
    IN  <<C_daf, H_daf, O_daf, N_daf, S_daf>>

\* variant: the sulfur is left in the divisor
UltChoWithS(ult_daf) ==
    LET C_daf == ult_daf[1]
        H_daf == ult_daf[2]
        O_daf == ult_daf[3]
        N_daf == ult_daf[4]
        den   == FSub(Q(100), N_daf)
        C_cho == FDiv(FMul(C_daf, Q(100)), den)
        H_cho == FDiv(FMul(H_daf, Q(100)), den)
        O_cho == FDiv(FMul(O_daf, Q(100)), den)
    IN  <<C_cho, H_cho, O_cho>>

\* _ult_bases: [C_cho, H_cho, O_cho] from the daf values
UltCho(ult_daf) ==
    LET C_daf == ult_daf[1]
        H_daf == ult_daf[2]
        O_daf == ult_daf[3]
        N_daf == ult_daf[4]
        S_daf == ult_daf[5]
        den   == FSub(FSub(Q(100), N_daf), S_daf)
        C_cho == FDiv(FMul(C_daf, Q(100)), den)
        H_cho == FDiv(FMul(H_daf, Q(100)), den)
        O_cho == FDiv(FMul(O_daf, Q(100)), den)
    IN  <<C_cho, H_cho, O_cho>>

\* variant: the water vapor is left out of the liquids
LumpYieldNoWater(exp_yield) ==
    LET gases   == exp_yield[3]
        liquids == FAdd(exp_yield[1], exp_yield[2])
        solids  == exp_yield[5]
    IN  <<gases, liquids, solids>>

\* _lump_yields: [gases, liquids, solids], first lumping
LumpYield(exp_yield) ==
    LET gases   == exp_yield[3]
        liquids == FAdd(FAdd(exp_yield[1], exp_yield[2]), exp_yield[4])
        solids  == exp_yield[5]
    IN  <<gases, liquids, solids>>

\* variant: the condensables stay with the liquids
Lump2YieldCondLiquid(exp_yield) ==
    LET gases   == FAdd(exp_yield[3], exp_yield[4])
        liquids == FAdd(exp_yield[1], exp_yield[2])
        solids  == exp_yield[5]
    IN  <<gases, liquids, solids>>

\* _lump_yields: [gases, liquids, solids], second lumping
Lump2Yield(exp_yield) ==
    LET gases   == FAdd(FAdd(exp_yield[3], exp_yield[2]), exp_yield[4])
        liquids == exp_yield[1]
        solids  == exp_yield[5]
    IN  <<gases, liquids, solids>>

\* _lump_yields: [norm_gases, norm_liquids, norm_solids]
NormLumpYield(normexp_yield) ==
    LET norm_gases   == normexp_yield[3]
        norm_liquids == FAdd(FAdd(normexp_yield[1], normexp_yield[2]),
                             normexp_yield[4])
        norm_solids  == normexp_yield[5]
    IN  <<norm_gases, norm_liquids, norm_solids>>

\* _chem_bases: chem_d * 100 / (total_d - chem_d[0] - chem_d[1]), then
\* chem_daf[0:2] = 0 on the new array
ChemDaf(chem_d) ==
    LET total_d == FSum(chem_d)
        den     == FSub(FSub(total_d, chem_d[1]), chem_d[2])
        scaled  == VDiv(VMul(chem_d, Q(100)), den)
    IN  [i \in 1..Len(scaled) |-> IF i \in 1..2 THEN Q(0) ELSE scaled[i]]

\* variant: the acetyl is left out of the hemicellulose
ChemBcNoAcetyl(chem_daf) ==
    LET cell == chem_daf[7]
        hemi == FAdd(FAdd(FAdd(chem_daf[8], chem_daf[9]), chem_daf[10]),
                     chem_daf[11])
        lig  == chem_daf[6]
    IN  <<cell, hemi, lig>>

\* _chem_bases: [cell, hemi, lig]
ChemBc(chem_daf) ==
    LET cell == chem_daf[7]
        hemi == FAdd(FAdd(FAdd(FAdd(chem_daf[8], chem_daf[9]), chem_daf[10]),
                          chem_daf[11]), chem_daf[12])
        lig  == chem_daf[6]
    IN  <<cell, hemi, lig>>

(***************************************************************************)
(* Input data: the entries of data/feedstocks.json                         *)
(***************************************************************************)
Levels == 0..MaxLevel

\* [oil, condensables, light gas, water vapor, char]
YieldInputs ==
    {<<Norm(41 * o, 2), Q(5 * c), Q(8 * g), Q(7 * w), Q(6 * ch)>> :
        o \in Levels, c \in Levels, g \in Levels, w \in Levels, ch \in Levels}

\* [FC, VM, ash, moisture]: the vectors that sum to 100 and others
ProxInputs ==
    {<<Norm(25 * fc, 2),
       FSub(Q(100 - 50 * m - 25 * a), Norm(25 * fc, 2)),
       Q(25 * a), Q(50 * m)>> :
        fc \in Levels, a \in Levels, m \in Levels}
    \cup
    {<<Norm(25 * fc, 2), Q(30 * vm), Q(25 * a), Q(50 * m)>> :
        fc \in Levels, vm \in Levels, a \in Levels, m \in Levels}

\* [C, H, O, N, S, ash, moisture]: O closes the total of all seven to 100,
\* or the total of the first six to 100, or is free
UltInputs ==
    {<<Q(50), Q(6), Q(100 - 56 - n - s - 5 * a - 10 * m), Q(n), Q(s),
       Q(5 * a), Q(10 * m)>> :
        n \in Levels, s \in Levels, a \in Levels, m \in Levels}
    \cup
    {<<Q(50), Q(6), Q(100 - 56 - n - s - 5 * a), Q(n), Q(s),
       Q(5 * a), Q(10 * m)>> :
        n \in Levels, s \in Levels, a \in Levels, m \in Levels}
    \cup
    {<<Q(25 * c), Q(3 * h), Q(20 * o), Q(50 * n), Q(50 * s), Q(50 * a),
       Q(50 * m)>> :
        c \in {0, 1}, h \in {0, 1}, o \in {0, 1}, n \in {0, 1}, s \in {0, 1},
        a \in {0, 1}, m \in Levels}

\* [structural inorganics, non-structural inorganics, water extractable,
\*  ethanol extractives, acetone extractives, lignin, glucan, xylan,
\*  galactan, arabinan, mannan, acetyl]
ChemInputs ==
    {<<Q(i), Q(2 * b), Q(3 * w), Q(4 * b), Q(b), Q(13 * l), Q(20 * g),
       Q(8 * x), Norm(3 * b, 2), Q(b), Q(2 * b), Q(3 * b)>> :
        i \in Levels, b \in {0, 1}, w \in Levels, l \in Levels, g \in Levels,
        x \in Levels}
    \cup
    {<<Q(1), Q(2), Q(-5), Q(4), Q(1), Q(26), Q(40), Q(16), Q(1), Q(1), Q(2),
       Q(3)>>}

BaseProx == <<Q(15), Q(79), Q(1), Q(5)>>

BaseUlt == <<Q(50), Q(6), Q(42), Norm(1, 2), Norm(1, 2), Q(1), Q(10)>>

BaseChem == <<Norm(5, 10), Norm(3, 10), Norm(21, 10), Norm(34, 10),
              Norm(4, 10), Norm(282, 10), Norm(407, 10), Norm(65, 10),
              Norm(24, 10), Norm(15, 10), Norm(104, 10), Norm(13, 10)>>

BaseYield == <<Norm(551, 10), Norm(53, 10), Norm(152, 10), Norm(98, 10),
               Norm(121, 10)>>

\* a data dictionary; residenceTime is <<>> when the key is absent
Data(p, u, c, y, rt) ==
    [name |-> "pine", cycle |-> 1, proximate |-> p, ultimate |-> u,
     chemical |-> c, yield |-> y, residenceTime |-> rt]

DataInputs ==
    {Data(p, BaseUlt, BaseChem, BaseYield, <<>>) : p \in ProxInputs}
    \cup {Data(BaseProx, u, BaseChem, BaseYield, <<>>) : u \in UltInputs}
    \cup {Data(BaseProx, BaseUlt, c, BaseYield, <<>>) : c \in ChemInputs}
    \cup {Data(BaseProx, BaseUlt, BaseChem, y, <<>>) : y \in YieldInputs}
    \cup {Data(BaseProx, BaseUlt, BaseChem, BaseYield, rt) :
            rt \in {<<>>, <<Q(20)>>}}

(***************************************************************************)
(* State                                                                   *)
(***************************************************************************)
VARIABLES
    pc,     \* position in Feedstock.__init__
    data,   \* the data dictionary given to Feedstock(data)
    self,   \* the attributes of the Feedstock object
    ncalls, \* number of calc_biocomp calls made on the object
    res,    \* the last call of scipy's minimize and its result, or None
    ret,    \* what the last calc_biocomp call returned, or None
    first   \* the inputs (yc, yh, ybc) of the first calc_biocomp call, or None

\* the state of the calc_biocomp calls
calcVars == <<ncalls, res, ret, first>>

\* reactor.py: one call of run_batch_simulation, BatchReactor.run_simulation
\* or run_cstr_simulation
VARIABLES
    rpc,     \* position in the function: "call", "loop", "returned", "raised"
    fn,      \* the function called
    params,  \* its arguments
    gasSol,  \* the state of the Solution object gas
    reactor, \* the state of the contents of the reactor r, respectively cstr
    inlet,   \* the state held by the Reservoir inlet
    mdot,    \* the mass flow rate of the MassFlowController
    states,  \* the SolutionArray states: the appended entries in order
    iter,    \* number of loop iterations completed
    result   \* the returned (or stored) states, or None

reactorVars == <<rpc, fn, params, gasSol, reactor, inlet, mdot, states, iter, result>>

\* the driver scripts batch_all.py, run_batch_all.py, cstr_all.py,
\* run_cstr_all.py and run_cstr_single.py
VARIABLES
    script,     \* the script that runs
    dpc,        \* position in the script
    fdata,      \* fdata = json.load(json_file)
    nCstrs,     \* n_cstrs, the number of CSTRs in series (0 in a batch script)
    feedstocks, \* the list of Feedstock objects
    fi,         \* number of feedstocks the loop has completed
    tau,        \* residence time handed to the CSTR model, or None
    yf,         \* yf_gases, yf_liquids, yf_solids, yf_metas, yf_solidmeta
    expy,       \* exp_gases, exp_liquids, exp_solids, exp_ash
    drawn,      \* the figures and fits made so far, in order
    err         \* the exception that ended the script, or None

driverVars == <<script, dpc, fdata, nCstrs, feedstocks, fi, tau, yf, expy,
                drawn, err>>

vars == <<pc, data, self, calcVars, reactorVars, driverVars>>

\* the object before __init__ has assigned anything: no attributes
NoAttrs == [a \in {} |-> None]

HasAttr(obj, a) == a \in DOMAIN obj

\* no function of reactor.py is being run
ReactorIdle ==
    /\ rpc = "idle"
    /\ fn = None
    /\ params = None
    /\ gasSol = None
    /\ reactor = None
    /\ inlet = None
    /\ mdot = None
    /\ states = None
    /\ iter = 0
    /\ result = None

\* no driver script is running
DriverIdle ==
    /\ script = None
    /\ dpc = "idle"
    /\ fdata = None
    /\ nCstrs = 0
    /\ feedstocks = None
    /\ fi = 0
    /\ tau = None
    /\ yf = None
    /\ expy = None
    /\ drawn = None
    /\ err = None

\* no Feedstock is being constructed
FeedstockIdle ==
    /\ pc = "idle"
    /\ data = None
    /\ self = NoAttrs
    /\ ncalls = 0
    /\ res = None
    /\ ret = None
    /\ first = None

Init ==
    /\ pc = "init"
    /\ data \in DataInputs
    /\ self = NoAttrs
    /\ ncalls = 0
    /\ res = None
    /\ ret = None
    /\ first = None
    /\ ReactorIdle
    /\ DriverIdle

\* __init__, lines 93-116: the attributes assigned from the data dictionary
\* d, the derived ones None
Attrs(d) ==
    LET attrs ==
            [name |-> d.name,
             cycle |-> d.cycle,
             prox_ad |-> d.proximate,
             prox_ar |-> None,
             prox_d |-> None,
             prox_daf |-> None,
             ult_ad |-> d.ultimate,
             ult_ar |-> None,
             ult_d |-> None,
             ult_daf |-> None,
             ult_cho |-> None,
             chem_d |-> d.chemical,
             chem_daf |-> None,
             chem_bc |-> None,
             ADL |-> 22,
             exp_yield |-> d.yield,
             normexp_yield |-> NormExpYield(d.yield),
             lump_yield |-> None,
             lump2_yield |-> None,
             normlump_yield |-> None]
    IN  IF d.residenceTime # <<>>
        THEN attrs @@ [residence_time |-> d.residenceTime[1]]
        ELSE attrs

\* __init__, lines 93-116: the attributes are assigned, the derived ones None
InitAttrs ==
    /\ pc = "init"
    /\ self' = Attrs(data)
    /\ pc' = "prox"
    /\ UNCHANGED <<data, calcVars, reactorVars, driverVars>>

\* self._prox_bases()
ProxBases ==
    /\ pc = "prox"
    /\ self' = [self EXCEPT !.prox_ar = ProxAr(self.prox_ad, self.ADL),
                            !.prox_d = ProxD(self.prox_ad),
                            !.prox_daf = ProxDaf(self.prox_ad)]
    /\ pc' = "ult"
    /\ UNCHANGED <<data, calcVars, reactorVars, driverVars>>

\* self._ult_bases()
UltBases ==
    /\ pc = "ult"
    /\ self' = [self EXCEPT !.ult_ar = UltAr(self.ult_ad, self.ADL),
                            !.ult_d = UltD(self.ult_ad),
                            !.ult_daf = UltDaf(self.ult_ad),
                            !.ult_cho = UltCho(UltDaf(self.ult_ad))]
    /\ pc' = "lump"
    /\ UNCHANGED <<data, calcVars, reactorVars, driverVars>>

\* variant: the normalized lumped yields are never assigned
LumpYieldsNoNorm ==
    /\ pc = "lump"
    /\ self' = [self EXCEPT !.lump_yield = LumpYield(self.exp_yield),
                            !.lump2_yield = Lump2Yield(self.exp_yield)]
    /\ pc' = "chem"
    /\ UNCHANGED <<data, calcVars, reactorVars, driverVars>>

\* self._lump_yields()
LumpYields ==
    /\ pc = "lump"
    /\ self' = [self EXCEPT !.lump_yield = LumpYield(self.exp_yield),
                            !.lump2_yield = Lump2Yield(self.exp_yield),
                            !.normlump_yield = NormLumpYield(self.normexp_yield)]
    /\ pc' = "chem"
    /\ UNCHANGED <<data, calcVars, reactorVars, driverVars>>

\* variant: chem_daf is computed in place, in the array self.chem_d refers to
ChemArraysInPlace(chem_d) ==
    LET chem_daf == ChemDaf(chem_d)
    IN  [chem_d |-> chem_daf, chem_daf |-> chem_daf, chem_bc |-> ChemBc(chem_daf)]

\* self._chem_bases(): the arrays it leaves in chem_d, chem_daf and chem_bc.
\* chem_d * 100 / (...) allocates a new array, so the slice assignment
\* chem_daf[0:2] = 0 does not reach self.chem_d.
ChemArrays(chem_d) ==
    LET chem_daf == ChemDaf(chem_d)
    IN  [chem_d |-> chem_d, chem_daf |-> chem_daf, chem_bc |-> ChemBc(chem_daf)]

ChemBases ==
    /\ pc = "chem"
    /\ LET r == ChemArrays(self.chem_d)
       IN  self' = [self EXCEPT !.chem_d = r.chem_d,
                                !.chem_daf = r.chem_daf,
                                !.chem_bc = r.chem_bc]
    /\ pc' = "done"
    /\ UNCHANGED <<data, calcVars, reactorVars, driverVars>>

\* Feedstock(d): the object __init__ leaves for the data dictionary d
Feedstock(d) ==
    LET init(a) ==
            LET c == ChemArrays(a.chem_d)
            IN  [a EXCEPT !.prox_ar = ProxAr(a.prox_ad, a.ADL),
                          !.prox_d = ProxD(a.prox_ad),
                          !.prox_daf = ProxDaf(a.prox_ad),
                          !.ult_ar = UltAr(a.ult_ad, a.ADL),
                          !.ult_d = UltD(a.ult_ad),
                          !.ult_daf = UltDaf(a.ult_ad),
                          !.ult_cho = UltCho(UltDaf(a.ult_ad)),
                          !.lump_yield = LumpYield(a.exp_yield),
                          !.lump2_yield = Lump2Yield(a.exp_yield),
                          !.normlump_yield = NormLumpYield(a.normexp_yield),
                          !.chem_d = c.chem_d,
                          !.chem_daf = c.chem_daf,
                          !.chem_bc = c.chem_bc]
    IN  CHOOSE f \in {init(a) : a \in {Attrs(d)}} : TRUE

(***************************************************************************)
(* calc_biocomp.  scipy's minimize and chemics' biocomp are libraries: the  *)
(* optimiser is modelled by what L-BFGS-B promises of its result, a point  *)
(* inside the bounds it was given, and biocomp by the call made to it.     *)
(***************************************************************************)
\* x0 = [0.6, 0.8, 0.8, 1, 1]
X0 == <<Norm(3, 5), Norm(4, 5), Norm(4, 5), Q(1), Q(1)>>

\* bnds = ((0, 1), (0, 1), (0, 1), (0, 1), (0, 1))
Bnds == [i \in 1..5 |-> <<Q(0), Q(1)>>]

\* lo <= v <= hi
Within(v, lo, hi) == IsFinite(v) /\ ~FGt(lo, v) /\ ~FGt(v, hi)

\* points the optimiser may stop at, before its bounds are applied
OptPoints ==
    {X0,
     <<Q(0), Norm(1, 4), Norm(1, 2), Norm(3, 4), Q(1)>>,
     <<Q(1), Norm(3, 4), Norm(1, 2), Norm(1, 4), Q(0)>>,
     <<Norm(3, 2), Norm(1, 4), Norm(1, 2), Norm(3, 4), Q(1)>>,
     <<Norm(1, 2), Norm(1, 4), Norm(-1, 2), Norm(3, 4), Q(2)>>}

\* minimize(objfunc, x0, args, method='L-BFGS-B', bounds=bnds): the values
\* res.x can take, each component inside its bounds
Minimize(x0, bnds) ==
    {x \in OptPoints \cup {x0} :
        \A i \in 1..Len(x) : Within(x[i], bnds[i][1], bnds[i][2])}

\* cm.biocomp(yc, yh, alpha=, beta=, gamma=, delta=, epsilon=): the result is
\* known only as the result of this call
Biocomp(yc, yh, alpha, beta, gamma, delta, epsilon) ==
    [yc |-> yc, yh |-> yh, alpha |-> alpha, beta |-> beta, gamma |-> gamma,
     delta |-> delta, epsilon |-> epsilon]

\* the arguments (yc, yh, ybc) calc_biocomp hands to the optimiser
BiocompArgs(obj) ==
    <<FDiv(obj.ult_cho[1], Q(100)), FDiv(obj.ult_cho[2], Q(100)),
      VDiv(obj.chem_bc, Q(100))>>

\* variant: beta and gamma change places in the call of cm.biocomp
CalcBiocompSwapped(obj, x) ==
    LET args == BiocompArgs(obj)
    IN  [bc |-> Biocomp(args[1], args[2], x[1], x[3], x[2], x[4], x[5]),
         splits |-> <<x[1], x[2], x[3], x[4], x[5]>>,
         obj |-> obj]

\* variant: ybc is computed in place, self.chem_bc /= 100
CalcBiocompInPlace(obj, x) ==
    LET args == BiocompArgs(obj)
    IN  [bc |-> Biocomp(args[1], args[2], x[1], x[2], x[3], x[4], x[5]),
         splits |-> <<x[1], x[2], x[3], x[4], x[5]>>,
         obj |-> [obj EXCEPT !.chem_bc = args[3]]]

\* calc_biocomp(self) when the optimiser stops at x: the returned bc and
\* splits, and the object as the call leaves it
CalcBiocompReturn(obj, x) ==
    LET args == BiocompArgs(obj)
    IN  [bc |-> Biocomp(args[1], args[2], x[1], x[2], x[3], x[4], x[5]),
         splits |-> <<x[1], x[2], x[3], x[4], x[5]>>,
         obj |-> obj]

\* feedstock.calc_biocomp()
CalcBiocomp ==
    /\ pc = "done"
    /\ ncalls < MaxCalls
    /\ \E x \in Minimize(X0, Bnds) :
         LET r == CalcBiocompReturn(self, x)
         IN  /\ res' = [x0 |-> X0, bounds |-> Bnds, method |-> "L-BFGS-B",
                        args |-> BiocompArgs(self), x |-> x]
             /\ ret' = [bc |-> r.bc, splits |-> r.splits]
             /\ self' = r.obj
    /\ first' = IF ncalls = 0 THEN BiocompArgs(self) ELSE first
    /\ ncalls' = ncalls + 1
    /\ UNCHANGED <<pc, data, reactorVars, driverVars>>

Next ==
    \/ InitAttrs
    \/ ProxBases
    \/ UltBases
    \/ LumpYields
    \/ ChemBases
    \/ CalcBiocomp

Spec == Init /\ [][Next]_vars

\* Feedstock(data) has returned
Constructed == pc = "done"

(***************************************************************************)
(* reactor.py and batch_reactor.py.  Cantera is a library: a thermodynamic *)
(* state is modelled by the state it was set to, [T, P, Y], and the        *)
(* integrations it has since gone through: for a batch reactor the times   *)
(* it was advanced to, for a CSTR the residence time mass/mdot of every    *)
(* reactor whose steady state it has passed.                               *)
(***************************************************************************)
\* gas.TPY = temp, pressure, y0
ThermoState(temp, pressure, y0) ==
    [T |-> temp, P |-> pressure, Y |-> y0, hist |-> <<>>]

\* sim.advance(t) on the reactor contents r
Advance(r, t) == [r EXCEPT !.hist = Append(@, t)]

\* sim.reinitialize(); sim.advance_to_steady_state(): the contents of a
\* reactor of mass m fed with the state inl at the mass flow rate md
SteadyState(inl, m, md) == [inl EXCEPT !.hist = Append(@, FDiv(m, md))]

\* cstr.mass for the reactor volume area * (length / n_cstrs), in units in
\* which density * area is 1
CstrMass(length, n_cstrs) == FDiv(length, Q(n_cstrs))

RECURSIVE IncreasingFrom(_, _)
\* the increasing sequences of values lo..MaxTime, of any length
IncreasingFrom(lo, hi) ==
    IF lo > hi THEN {<<>>}
    ELSE IncreasingFrom(lo + 1, hi)
         \cup {<<lo>> \o t : t \in IncreasingFrom(lo + 1, hi)}

\* time: increasing time steps [s], as np.linspace gives them
TimeInputs == IncreasingFrom(0, MaxTime)

TempInputs == {Q(773), Q(823)}

\* y0: mass fractions of the species fed to the reactor
Y0Inputs ==
    {[CELL |-> Norm(1, 2), LIGC |-> Norm(1, 4), N2 |-> Norm(1, 4)],
     [CELL |-> Norm(1, 4), LIGC |-> Norm(1, 4), N2 |-> Norm(1, 2)]}

BatchFns == {"run_batch_simulation", "BatchReactor.run_simulation"}

BatchParams ==
    [cti : {"debiagi_sw.cti"}, pressure : {Q(101325)}, temp : TempInputs,
     time : TimeInputs, y0 : Y0Inputs, energy : {"off", "on"}]

CstrParams ==
    [cti : {"debiagi_sw_metan2.cti"}, diam : {Q(1)}, length : {Q(1), Q(2)},
     n_cstrs : 0..MaxCstrs, pressure : {Q(101325)},
     tau : {Q(0), Norm(1, 50), Q(5)}, temp : TempInputs, y0 : Y0Inputs,
     energy : {"off"}]

\* a function of reactor.py is called
InitReactor ==
    /\ FeedstockIdle
    /\ DriverIdle
    /\ rpc = "call"
    /\ \/ fn \in BatchFns /\ params \in BatchParams
       \/ fn = "run_cstr_simulation" /\ params \in CstrParams
    /\ gasSol = None
    /\ reactor = None
    /\ inlet = None
    /\ mdot = None
    /\ states = None
    /\ iter = 0
    /\ result = None

feedstockVars == <<pc, data, self, calcVars>>

\* run_batch_simulation, up to the loop
BatchSetup ==
    /\ rpc = "call"
    /\ fn \in BatchFns
    /\ gasSol' = ThermoState(params.temp, params.pressure, params.y0)
    /\ reactor' = gasSol'
    /\ states' = <<>>
    /\ iter' = 0
    /\ rpc' = "loop"
    /\ UNCHANGED <<fn, params, inlet, mdot, result, feedstockVars,
                   driverVars>>

\* variant: a new reactor is created from the feed for every time step
BatchStepNewReactor ==
    /\ rpc = "loop"
    /\ fn \in BatchFns
    /\ iter < Len(params.time)
    /\ LET t == params.time[iter + 1]
           r == Advance(ThermoState(params.temp, params.pressure, params.y0), t)
       IN  /\ reactor' = r
           /\ gasSol' = r
           /\ states' = Append(states, [state |-> r, t |-> t])
    /\ iter' = iter + 1
    /\ UNCHANGED <<rpc, fn, params, inlet, mdot, result, feedstockVars,
                   driverVars>>

\* for t in time: sim.advance(t); states.append(r.thermo.state, t=t)
BatchStep ==
    /\ rpc = "loop"
    /\ fn \in BatchFns
    /\ iter < Len(params.time)
    /\ LET t == params.time[iter + 1]
           r == Advance(reactor, t)
       IN  /\ reactor' = r
           /\ gasSol' = r
           /\ states' = Append(states, [state |-> r, t |-> t])
    /\ iter' = iter + 1
    /\ UNCHANGED <<rpc, fn, params, inlet, mdot, result, feedstockVars,
                   driverVars>>

\* return states, respectively self.states = states
BatchReturn ==
    /\ rpc = "loop"
    /\ fn \in BatchFns
    /\ iter = Len(params.time)
    /\ result' = states
    /\ rpc' = "returned"
    /\ UNCHANGED <<fn, params, gasSol, reactor, inlet, mdot, states, iter,
                   feedstockVars,
                   driverVars>>

\* run_cstr_simulation when a division by zero ends it: dz = length / n_cstrs
\* with n_cstrs = 0, or mdot = cstr.mass / tau with tau = 0
CstrRaise ==
    /\ rpc = "call"
    /\ fn = "run_cstr_simulation"
    /\ \/ params.n_cstrs = 0
       \/ params.n_cstrs # 0 /\ params.tau = Q(0)
    /\ rpc' = "raised"
    /\ UNCHANGED <<fn, params, gasSol, reactor, inlet, mdot, states, iter,
                   result, feedstockVars,
                   driverVars>>

\* run_cstr_simulation, up to the loop: the gas, the reactor and the inlet
\* reservoir hold the feed state, which is the first entry of states
CstrSetup ==
    /\ rpc = "call"
    /\ fn = "run_cstr_simulation"
    /\ params.n_cstrs # 0
    /\ params.tau # Q(0)
    /\ gasSol' = ThermoState(params.temp, params.pressure, params.y0)
    /\ reactor' = gasSol'
    /\ inlet' = gasSol'
    /\ mdot' = FDiv(CstrMass(params.length, params.n_cstrs), params.tau)
    /\ states' = <<[state |-> reactor']>>
    /\ iter' = 0
    /\ rpc' = "loop"
    /\ UNCHANGED <<fn, params, result, feedstockVars,
                   driverVars>>

\* variant: the inlet reservoir is not synchronised with the gas
CstrStepNoSync ==
    /\ rpc = "loop"
    /\ fn = "run_cstr_simulation"
    /\ iter < params.n_cstrs
    /\ gasSol' = reactor
    /\ inlet' = inlet
    /\ reactor' = SteadyState(inlet', CstrMass(params.length, params.n_cstrs),
                              mdot)
    /\ states' = Append(states, [state |-> reactor'])
    /\ iter' = iter + 1
    /\ UNCHANGED <<rpc, fn, params, mdot, result, feedstockVars,
                   driverVars>>

\* for n in range(n_cstrs): gas.TPY = cstr.thermo.TPY; inlet.syncState();
\* sim.reinitialize(); sim.advance_to_steady_state();
\* states.append(cstr.thermo.state)
CstrStep ==
    /\ rpc = "loop"
    /\ fn = "run_cstr_simulation"
    /\ iter < params.n_cstrs
    /\ gasSol' = reactor
    /\ inlet' = gasSol'
    /\ reactor' = SteadyState(inlet', CstrMass(params.length, params.n_cstrs),
                              mdot)
    /\ states' = Append(states, [state |-> reactor'])
    /\ iter' = iter + 1
    /\ UNCHANGED <<rpc, fn, params, mdot, result, feedstockVars,
                   driverVars>>

\* return states
CstrReturn ==
    /\ rpc = "loop"
    /\ fn = "run_cstr_simulation"
    /\ iter = params.n_cstrs
    /\ result' = states
    /\ rpc' = "returned"
    /\ UNCHANGED <<fn, params, gasSol, reactor, inlet, mdot, states, iter,
                   feedstockVars,
                   driverVars>>

NextReactor ==
    \/ BatchSetup
    \/ BatchStep
    \/ BatchReturn
    \/ CstrRaise
    \/ CstrSetup
    \/ CstrStep
    \/ CstrReturn

SpecReactor == InitReactor /\ [][NextReactor]_vars

(***************************************************************************)
(* The driver scripts.  A model mass fraction carries, next to its value,   *)
(* the number of times it has been multiplied by 100: a fraction of the     *)
(* simulation has x100 = 0 and a wt.% value has x100 = 1.                   *)
(***************************************************************************)
BatchScripts == {"batch_all.py", "run_batch_all.py"}

CstrScripts == {"cstr_all.py", "run_cstr_all.py", "run_cstr_single.py"}

Scripts == BatchScripts \cup CstrScripts

\* entries of data/feedstocks.json, with and without the key residenceTime
FeedEntries ==
    {Data(BaseProx, BaseUlt, BaseChem, BaseYield, rt) :
        rt \in {<<>>, <<Q(20)>>, <<Q(0)>>}}
    \cup {Data(<<Q(14), Q(76), Q(5), Q(5)>>, BaseUlt, BaseChem,
                <<Q(50), Q(6), Q(16), Q(10), Q(14)>>, <<Q(10)>>)}

\* fdata = json.load(json_file): a list of entries
FdataInputs == UNION {[1..m -> FeedEntries] : m \in 0..MaxFeedstocks}

\* time = np.linspace(0, 20.0, 100): increasing time steps from 0
DriverTime == [k \in 1..MaxTime + 1 |-> k - 1]

\* the exit mass fractions of the phases a simulation can give
ExitYields ==
    {[gases |-> Norm(1, 5), liquids |-> Norm(1, 2), solids |-> Norm(1, 5),
      metas |-> Norm(1, 10)],
     [gases |-> Norm(3, 10), liquids |-> Norm(2, 5), solids |-> Norm(1, 4),
      metas |-> Norm(1, 20)]}

\* a mass fraction as the simulation gives it
Frac(y) == [y |-> y, x100 |-> 0]

\* v * 100
Times100(v) == [y |-> FMul(v.y, Q(100)), x100 |-> v.x100 + 1]

\* a + b; the sum of values of different scales has no scale (-1)
AddY(a, b) ==
    [y |-> FAdd(a.y, b.y), x100 |-> IF a.x100 = b.x100 THEN a.x100 ELSE -1]

\* arr * 100 and a + b on arrays
ArrTimes100(arr) == [k \in 1..Len(arr) |-> Times100(arr[k])]

ArrAdd(a, b) == [k \in 1..Len(a) |-> AddY(a[k], b[k])]

\* np.zeros(nf)
Zeros(nf) == [k \in 1..nf |-> Q(0)]

\* 'residenceTime' in fd
HasResidenceTime(fd) == fd.residenceTime # <<>>

RECURSIVE WithResidenceTime(_)
\* [fd for fd in fdata if 'residenceTime' in fd]
WithResidenceTime(fd) ==
    IF fd = <<>> THEN <<>>
    ELSE (IF HasResidenceTime(Head(fd)) THEN <<Head(fd)>> ELSE <<>>)
         \o WithResidenceTime(Tail(fd))

\* variant: run_cstr_all.py builds a Feedstock for every entry
LoadedFeedstocksAll(s, fd) ==
    IF s = "run_cstr_single.py" THEN <<Feedstock(fd[1])>>
    ELSE [k \in 1..Len(fd) |-> Feedstock(fd[k])]

\* the list feedstocks (run_cstr_single.py: the one feedstock) the script s
\* builds from fdata
LoadedFeedstocks(s, fd) ==
    IF s = "run_cstr_single.py" THEN <<Feedstock(fd[1])>>
    ELSE IF s = "run_cstr_all.py"
    THEN LET kept == WithResidenceTime(fd)
         IN  [k \in 1..Len(kept) |-> Feedstock(kept[k])]
    ELSE [k \in 1..Len(fd) |-> Feedstock(fd[k])]

\* variant: the total residence time is handed to the CSTR model
TauUndivided(s, f, k) ==
    IF s = "run_cstr_all.py" THEN f.residence_time
    ELSE IF s \in CstrScripts THEN Q(20)
    ELSE None

\* tau of the script s with n_cstrs = k, for the feedstock f
Tau(s, f, k) ==
    IF s = "run_cstr_all.py" THEN FDiv(f.residence_time, Q(k))
    ELSE IF s = "run_cstr_single.py" THEN FDiv(Q(20), Q(k))
    ELSE IF s = "cstr_all.py" THEN Q(20)
    ELSE None

\* the stages of a script after its loop over the feedstocks
Stages(s) ==
    IF s = "run_cstr_single.py" THEN <<"done">>
    ELSE IF s = "run_batch_all.py"
    THEN <<"scale", "bars", "compare", "fit", "done">>
    ELSE <<"bars", "scale", "compare", "fit", "done">>

\* the stage that follows the stage p of the script s
NextStage(s, p) ==
    LET k == CHOOSE j \in 1..Len(Stages(s)) : Stages(s)[j] = p
    IN  Stages(s)[k + 1]

\* where the script is after k of nf feedstocks are done
LoopOrAfter(s, k, nf) == IF k < nf THEN "loop" ELSE Stages(s)[1]

\* a driver script is started
InitDriver ==
    /\ FeedstockIdle
    /\ ReactorIdle
    /\ script \in Scripts
    /\ dpc = "load"
    /\ fdata \in FdataInputs
    /\ nCstrs \in (IF script \in CstrScripts THEN 1..MaxCstrs ELSE {0})
    /\ feedstocks = None
    /\ fi = 0
    /\ tau = None
    /\ yf = None
    /\ expy = None
    /\ drawn = <<>>
    /\ err = None

\* the script up to its loop: the parameters, fdata, the list feedstocks and
\* the result arrays
LoadFeedstocks ==
    /\ dpc = "load"
    /\ IF script = "run_cstr_single.py" /\ Len(fdata) = 0
       THEN /\ dpc' = "raised"
            /\ err' = "IndexError"
            /\ UNCHANGED <<feedstocks, tau, yf, expy>>
       ELSE \E fs \in {LoadedFeedstocks(script, fdata)} :
            LET nf == Len(fs)
            IN  /\ feedstocks' = fs
                /\ tau' = IF script = "run_cstr_all.py" THEN None
                          ELSE Tau(script, None, nCstrs)
                /\ yf' = [gases |-> [k \in 1..nf |-> Frac(Q(0))],
                          liquids |-> [k \in 1..nf |-> Frac(Q(0))],
                          solids |-> [k \in 1..nf |-> Frac(Q(0))],
                          metas |-> [k \in 1..nf |-> Frac(Q(0))],
                          solidmeta |-> None]
                /\ expy' = [gases |-> Zeros(nf), liquids |-> Zeros(nf),
                            solids |-> Zeros(nf), ash |-> Zeros(nf)]
                /\ dpc' = LoopOrAfter(script, 0, nf)
                /\ err' = err
    /\ UNCHANGED <<script, fdata, nCstrs, fi, drawn, feedstockVars,
                   reactorVars>>

\* one pass of the loop up to the simulation: tau, calc_biocomp, y0 and the
\* call of the reactor model (batch_all.py and cstr_all.py have the code of
\* run_batch_simulation and run_cstr_simulation inline)
StartFeedstock ==
    /\ dpc = "loop"
    /\ fi < Len(feedstocks)
    /\ LET f == feedstocks[fi + 1]
       IN  IF script = "run_cstr_all.py" /\ ~HasAttr(f, "residence_time")
           THEN /\ dpc' = "raised"
                /\ err' = "AttributeError"
                /\ UNCHANGED <<feedstocks, tau, reactorVars>>
           ELSE \E x \in Minimize(X0, Bnds) :
                  LET r  == CalcBiocompReturn(f, x)
                      t  == IF script = "run_cstr_all.py"
                            THEN Tau(script, f, nCstrs) ELSE tau
                      y0 == [bc |-> r.bc,
                             ACQUA |-> FDiv(r.obj.prox_ad[4], Q(100))]
                  IN  /\ feedstocks' = [feedstocks EXCEPT ![fi + 1] = r.obj]
                      /\ tau' = t
                      /\ rpc' = "call"
                      /\ IF script \in BatchScripts
                         THEN /\ fn' = "run_batch_simulation"
                              /\ params' =
                                   [cti |-> "data/debiagi_sw_meta.cti",
                                    pressure |-> Q(101325),
                                    temp |-> Norm(77315, 100),
                                    time |-> DriverTime, y0 |-> y0,
                                    energy |-> "off"]
                         ELSE /\ fn' = "run_cstr_simulation"
                              /\ params' =
                                   [cti |-> "data/debiagi_sw_metan2.cti",
                                    diam |-> Norm(525, 10000),
                                    length |-> Norm(4318, 10000),
                                    n_cstrs |-> nCstrs,
                                    pressure |-> Q(101325), tau |-> t,
                                    temp |-> Norm(77315, 100),
                                    y0 |-> y0 @@ [N2 |-> "y0_n2"],
                                    energy |-> "off"]
                      /\ dpc' = "sim"
                      /\ err' = err
                      /\ UNCHANGED <<gasSol, reactor, inlet, mdot, states,
                                     iter, result>>
    /\ UNCHANGED <<script, fdata, nCstrs, fi, yf, expy, drawn, feedstockVars>>

\* the rest of the pass, once the simulation has returned: the exit yields
\* of the model and the experimental lumped yields of the feedstock
StoreYields ==
    /\ dpc = "sim"
    /\ rpc = "returned"
    /\ \E y \in ExitYields :
         LET f    == feedstocks[fi + 1]
             k    == fi + 1
             lump == IF script \in {"batch_all.py", "cstr_all.py"}
                     THEN f.lump_yield ELSE f.lump2_yield
         IN  IF script = "run_cstr_single.py"
             THEN UNCHANGED <<yf, expy>>
             ELSE /\ yf' = [yf EXCEPT !.gases[k] = Frac(y.gases),
                                      !.liquids[k] = Frac(y.liquids),
                                      !.solids[k] = Frac(y.solids),
                                      !.metas[k] = Frac(y.metas)]
                  /\ expy' = [expy EXCEPT !.gases[k] = lump[1],
                                          !.liquids[k] = lump[2],
                                          !.solids[k] = lump[3],
                                          !.ash[k] = f.prox_ad[3]]
    /\ fi' = fi + 1
    /\ dpc' = LoopOrAfter(script, fi + 1, Len(feedstocks))
    /\ UNCHANGED <<script, fdata, nCstrs, feedstocks, tau, drawn, err,
                   feedstockVars, reactorVars>>

\* the figure of the final yields of the model: bars of the four phases in
\* wt. %, scaled in the call (yf_gases * 100) except in run_batch_all.py,
\* which has rescaled the arrays before
PlotYields ==
    /\ dpc = "bars"
    /\ LET bars == <<yf.gases, yf.liquids, yf.solids, yf.metas>>
       IN  drawn' = Append(drawn,
                [fig |-> "final yields",
                 model |-> IF script = "run_batch_all.py" THEN bars
                           ELSE [k \in 1..4 |-> ArrTimes100(bars[k])],
                 exp |-> None])
    /\ dpc' = NextStage(script, dpc)
    /\ UNCHANGED <<script, fdata, nCstrs, feedstocks, fi, tau, yf, expy, err,
                   feedstockVars, reactorVars>>

\* variant: the arrays are left as mass fractions
RescaleNot ==
    /\ dpc = "scale"
    /\ yf' = [yf EXCEPT !.solidmeta = ArrAdd(yf.solids, yf.metas)]
    /\ dpc' = NextStage(script, dpc)
    /\ UNCHANGED <<script, fdata, nCstrs, feedstocks, fi, tau, expy, drawn,
                   err, feedstockVars, reactorVars>>

\* yf_gases = yf_gases * 100, ..., yf_solidmeta = yf_solids + yf_metas
Rescale ==
    /\ dpc = "scale"
    /\ LET gases   == ArrTimes100(yf.gases)
           liquids == ArrTimes100(yf.liquids)
           solids  == ArrTimes100(yf.solids)
           metas   == ArrTimes100(yf.metas)
       IN  yf' = [gases |-> gases, liquids |-> liquids, solids |-> solids,
                  metas |-> metas, solidmeta |-> ArrAdd(solids, metas)]
    /\ dpc' = NextStage(script, dpc)
    /\ UNCHANGED <<script, fdata, nCstrs, feedstocks, fi, tau, expy, drawn,
                   err, feedstockVars, reactorVars>>

\* the figure of the model bars next to the experimental bars
PlotComparison ==
    /\ dpc = "compare"
    /\ drawn' = Append(drawn,
            [fig |-> "model and experiment",
             model |-> <<yf.gases, yf.liquids, yf.solidmeta>>,
             exp |-> <<expy.gases, expy.liquids, expy.solids>>])
    /\ dpc' = NextStage(script, dpc)
    /\ UNCHANGED <<script, fdata, nCstrs, feedstocks, fi, tau, yf, expy, err,
                   feedstockVars, reactorVars>>

\* the linear fits of the model and of the experimental yields over the
\* ash content, and their figure; np.polyfit raises TypeError for an empty
\* vector
FitAsh ==
    /\ dpc = "fit"
    /\ IF Len(feedstocks) = 0
       THEN /\ dpc' = "raised"
            /\ err' = "TypeError"
            /\ drawn' = drawn
       ELSE /\ drawn' = Append(drawn,
                    [fig |-> "fits over ash",
                     model |-> <<yf.gases, yf.liquids, yf.solids>>,
                     exp |-> <<expy.gases, expy.liquids, expy.solids>>])
            /\ dpc' = NextStage(script, dpc)
            /\ err' = err
    /\ UNCHANGED <<script, fdata, nCstrs, feedstocks, fi, tau, yf, expy,
                   feedstockVars, reactorVars>>

NextDriver ==
    \/ LoadFeedstocks
    \/ StartFeedstock
    \/ BatchSetup
    \/ BatchStep
    \/ BatchReturn
    \/ CstrRaise
    \/ CstrSetup
    \/ CstrStep
    \/ CstrReturn
    \/ StoreYields
    \/ PlotYields
    \/ Rescale
    \/ PlotComparison
    \/ FitAsh

SpecDriver == InitDriver /\ [][NextDriver]_vars

(***************************************************************************)
(* Properties                                                              *)
(***************************************************************************)
DerivedAttrs ==
    {"prox_ar", "prox_d", "prox_daf", "ult_ar", "ult_d", "ult_daf", "ult_cho",
     "chem_daf", "chem_bc", "lump_yield", "lump2_yield", "normlump_yield"}

\* positions at which a step of __init__ has already run
AfterProx == pc \in {"ult", "lump", "chem", "done"}

AfterUlt == pc \in {"lump", "chem", "done"}

AfterLump == pc \in {"chem", "done"}

\* C1: once Feedstock(data) has returned every derived attribute is set (not
\* None), although each is None when __init__ has assigned the attributes
\* and not yet called the _*_bases and _lump_yields methods, and prox_ad,
\* ult_ad, chem_d and exp_yield hold the values of data['proximate'],
\* data['ultimate'], data['chemical'] and data['yield'].
C1_DerivedSetInputsKept ==
    /\ pc = "prox" => \A a \in DerivedAttrs : self[a] = None
    /\ Constructed =>
        /\ \A a \in DerivedAttrs : self[a] # None
        /\ self.prox_ad = data.proximate
        /\ self.ult_ad = data.ultimate
        /\ self.chem_d = data.chemical
        /\ self.exp_yield = data.yield

C1_Witness ==
    /\ Constructed
    /\ \A a \in DerivedAttrs : Len(self[a]) > 0
    /\ self.prox_ad # BaseProx
    /\ self.prox_ad = data.proximate

\* C2: lump_yield is [gases, liquids, solids] with gases = light gas,
\* liquids = oil + condensables + water vapor and solids = char of the
\* experimental yield vector [oil, condensables, light gas, water vapor, char].
C2_LumpYield ==
    AfterLump =>
        LET oil   == data.yield[1]
            cond  == data.yield[2]
            gas   == data.yield[3]
            water == data.yield[4]
            char  == data.yield[5]
        IN  self.lump_yield = <<gas, FSum(<<oil, cond, water>>), char>>

C2_Witness ==
    /\ Constructed
    /\ FGt(data.yield[1], Q(0))
    /\ FGt(data.yield[2], Q(0))
    /\ FGt(data.yield[4], Q(0))
    /\ self.lump_yield[2] = FSum(<<data.yield[1], data.yield[2], data.yield[4]>>)

\* C3: lump2_yield is [gases, liquids, solids] with gases = light gas +
\* condensables + water vapor, liquids = oil and solids = char, and its
\* solids entry is the solids entry of lump_yield.
C3_Lump2Yield ==
    AfterLump =>
        LET oil   == data.yield[1]
            cond  == data.yield[2]
            gas   == data.yield[3]
            water == data.yield[4]
            char  == data.yield[5]
        IN  /\ self.lump2_yield = <<FSum(<<gas, cond, water>>), oil, char>>
            /\ self.lump2_yield[3] = self.lump_yield[3]

C3_Witness ==
    /\ Constructed
    /\ FGt(data.yield[2], Q(0))
    /\ FGt(data.yield[4], Q(0))
    /\ FGt(data.yield[5], Q(0))
    /\ self.lump2_yield[1] = FSum(<<data.yield[3], data.yield[2], data.yield[4]>>)
    /\ self.lump2_yield[3] = self.lump_yield[3]

\* C4: when the total of exp_yield is not zero, normexp_yield is exp_yield
\* divided by that total times 100 and sums to 100, and normlump_yield is the
\* lumping of normexp_yield, sums to 100 and is lump_yield divided by the
\* total of exp_yield times 100.
C4_NormalizedYields ==
    AfterLump =>
        LET total == FSum(self.exp_yield)
            n     == self.normexp_yield
        IN  total # Q(0) =>
              /\ \A i \in 1..5 :
                    FEq(n[i], FMul(FDiv(self.exp_yield[i], total), Q(100)))
              /\ FEq(FSum(n), Q(100))
              /\ self.normlump_yield = <<n[3], FSum(<<n[1], n[2], n[4]>>), n[5]>>
              /\ FEq(FSum(self.normlump_yield), Q(100))
              /\ \A i \in 1..3 :
                    FEq(self.normlump_yield[i],
                        FMul(FDiv(self.lump_yield[i], total), Q(100)))

C4_Witness ==
    /\ Constructed
    /\ FSum(self.exp_yield) \notin {Q(0), Q(100)}
    /\ \A i \in 1..5 : FGt(self.exp_yield[i], Q(0))
    /\ FSum(self.normlump_yield) = Q(100)
    /\ self.normlump_yield # self.lump_yield

\* C5: prox_ar uses an air-dry loss of 22 wt.%: M_ar = M_ad*(100-22)/100 + 22
\* and FC, VM and ash are each scaled by (100 - M_ar)/(100 - M_ad); whenever
\* the as-determined values sum to 100 and M_ad is not 100, prox_ar sums
\* to 100.
C5_ProxAsReceived ==
    AfterProx =>
        LET M_ad  == self.prox_ad[4]
            M_ar  == FAdd(FMul(M_ad, Norm(100 - 22, 100)), Q(22))
            scale == FDiv(FSub(Q(100), M_ar), FSub(Q(100), M_ad))
        IN  /\ self.ADL = 22
            /\ self.prox_ar[4] = M_ar
            /\ \A i \in 1..3 : self.prox_ar[i] = FMul(self.prox_ad[i], scale)
            /\ (FSum(self.prox_ad) = Q(100) /\ M_ad # Q(100))
                  => FEq(FSum(self.prox_ar), Q(100))

C5_Witness ==
    /\ Constructed
    /\ FSum(self.prox_ad) = Q(100)
    /\ FGt(self.prox_ad[4], Q(0))
    /\ self.prox_ad[4] # Q(100)
    /\ FGt(self.prox_ad[1], Q(0))
    /\ FGt(self.prox_ad[3], Q(0))
    /\ FSum(self.prox_ar) = Q(100)
    /\ self.prox_ar # self.prox_ad

\* C6: whenever the as-determined proximate values sum to 100, prox_d sums to
\* 100 if 100 - M_ad is not zero, and prox_daf sums to 100 if
\* 100 - M_ad - ash_ad is not zero.
C6_ProxDrySums ==
    AfterProx =>
        LET ash_ad == self.prox_ad[3]
            M_ad   == self.prox_ad[4]
        IN  FSum(self.prox_ad) = Q(100) =>
              /\ FSub(Q(100), M_ad) # Q(0)
                    => FEq(FSum(self.prox_d), Q(100))
              /\ FSub(FSub(Q(100), M_ad), ash_ad) # Q(0)
                    => FEq(FSum(self.prox_daf), Q(100))

C6_Witness ==
    /\ Constructed
    /\ FSum(self.prox_ad) = Q(100)
    /\ FGt(self.prox_ad[4], Q(0))
    /\ FGt(self.prox_ad[3], Q(0))
    /\ FGt(self.prox_ad[1], Q(0))
    /\ Len(self.prox_d) = 3
    /\ Len(self.prox_daf) = 2
    /\ FSum(self.prox_d) = Q(100)
    /\ FSum(self.prox_daf) = Q(100)

\* C7 (as claimed): for an as-determined ultimate analysis with
\* C + H + O + N + S + ash + moisture = 100, ult_d sums to 100 and ult_daf
\* sums to 100.  Stated here only for inputs whose divisors 100 - M_ad and
\* 100 - M_ad - ash_ad are not zero, where the sums are defined.
C7_UltDrySums ==
    AfterUlt =>
        LET ash_ad == self.ult_ad[6]
            M_ad   == self.ult_ad[7]
        IN  (/\ FSum(self.ult_ad) = Q(100)
             /\ FSub(Q(100), M_ad) # Q(0)
             /\ FSub(FSub(Q(100), M_ad), ash_ad) # Q(0))
              => /\ FEq(FSum(self.ult_d), Q(100))
                 /\ FEq(FSum(self.ult_daf), Q(100))

\* the divisor of the CHO basis
ChoDen(ult_daf) == FSub(FSub(Q(100), ult_daf[4]), ult_daf[5])

\* C8 (amended): ult_cho[i] = ult_daf[i]*100/(100 - N_daf - S_daf) for i in
\* C, H, O; whenever ult_daf is finite and 100 - N_daf - S_daf is not zero the
\* ratios C:H:O of ult_daf are preserved and, if ult_daf also sums to 100,
\* ult_cho sums to 100.
C8_ChoBasis ==
    AfterUlt =>
        LET daf == self.ult_daf
            cho == self.ult_cho
            den == ChoDen(daf)
        IN  /\ Len(cho) = 3
            /\ \A i \in 1..3 : cho[i] = FDiv(FMul(daf[i], Q(100)), den)
            /\ ((\A i \in 1..5 : IsFinite(daf[i])) /\ den # Q(0)) =>
                  /\ \A i \in 1..3 : \A j \in 1..3 :
                        FEq(FMul(cho[i], daf[j]), FMul(cho[j], daf[i]))
                  /\ FSum(daf) = Q(100) => FEq(FSum(cho), Q(100))

C8_Witness ==
    /\ Constructed
    /\ FSum(self.ult_daf) = Q(100)
    /\ FGt(self.ult_daf[4], Q(0))
    /\ FGt(self.ult_daf[5], Q(0))
    /\ ChoDen(self.ult_daf) # Q(0)
    /\ FSum(self.ult_cho) = Q(100)
    /\ FGt(self.ult_cho[1], self.ult_daf[1])

\* C8 (as claimed): whenever ult_daf sums to 100, ult_cho sums to 100.
C8_ChoSumsWheneverDafSums ==
    AfterUlt =>
        (FSum(self.ult_daf) = Q(100) => FEq(FSum(self.ult_cho), Q(100)))

\* the divisor of the chemical daf basis: sum(chem_d) - chem_d[0] - chem_d[1]
ChemDen(chem_d) == FSub(FSub(FSum(chem_d), chem_d[1]), chem_d[2])

\* C9 (amended): the first two entries of chem_daf are 0 and the other ten
\* are chem_d[i]*100/(sum(chem_d) - chem_d[0] - chem_d[1]); chem_daf sums to
\* 100 whenever that divisor is not zero; computing it leaves chem_d
\* unchanged.
C9_ChemDaf ==
    Constructed =>
        LET den == ChemDen(data.chemical)
        IN  /\ Len(self.chem_daf) = 12
            /\ self.chem_daf[1] = Q(0)
            /\ self.chem_daf[2] = Q(0)
            /\ \A i \in 3..12 :
                  self.chem_daf[i] = FDiv(FMul(data.chemical[i], Q(100)), den)
            /\ den # Q(0) => FEq(FSum(self.chem_daf), Q(100))
            /\ self.chem_d = data.chemical

C9_Witness ==
    /\ Constructed
    /\ FGt(self.chem_d[1], Q(0))
    /\ FGt(self.chem_d[2], Q(0))
    /\ \A i \in 3..12 : FGt(self.chem_daf[i], Q(0))
    /\ FSum(self.chem_d) # Q(100)
    /\ FSum(self.chem_daf) = Q(100)
    /\ self.chem_d = data.chemical

\* C9 (as claimed): chem_daf sums to 100.
C9_ChemDafSumsTo100 ==
    Constructed => FEq(FSum(self.chem_daf), Q(100))

\* the three daf extractives entries: water, ethanol, acetone
Extractives(chem_daf) == FSum(<<chem_daf[3], chem_daf[4], chem_daf[5]>>)

NonNegative(x) == \A i \in 1..Len(x) : ~FGt(Q(0), x[i])

\* C10 (amended): chem_bc = [cellulose, hemicellulose, lignin] is taken from
\* chem_daf with cellulose = glucan, hemicellulose = xylan + galactan +
\* arabinan + mannan + acetyl and lignin = lignin; whenever the divisor
\* sum(chem_d) - chem_d[0] - chem_d[1] of chem_daf is not zero its total
\* equals 100 minus the three daf extractives entries; for non-negative
\* inputs the total never exceeds 100.
C10_ChemBc ==
    Constructed =>
        LET daf == self.chem_daf
            bc  == self.chem_bc
        IN  /\ bc = <<daf[7], FSum(<<daf[8], daf[9], daf[10], daf[11], daf[12]>>),
                      daf[6]>>
            /\ ChemDen(self.chem_d) # Q(0)
                  => FEq(FSum(bc), FSub(Q(100), Extractives(daf)))
            /\ NonNegative(self.chem_d) => ~FGt(FSum(bc), Q(100))

C10_Witness ==
    /\ Constructed
    /\ NonNegative(self.chem_d)
    /\ \A i \in 1..3 : FGt(self.chem_bc[i], Q(0))
    /\ FGt(self.chem_daf[12], Q(0))
    /\ FGt(Extractives(self.chem_daf), Q(0))
    /\ FGt(Q(100), FSum(self.chem_bc))
    /\ FSum(self.chem_bc) = FSub(Q(100), Extractives(self.chem_daf))

\* C10 (as claimed): the total of chem_bc equals 100 minus the three daf
\* extractives entries.
C10_BcTotalIs100MinusExtractives ==
    Constructed =>
        FEq(FSum(self.chem_bc), FSub(Q(100), Extractives(self.chem_daf)))

\* C11: calc_biocomp starts the optimisation from [0.6, 0.8, 0.8, 1, 1] with
\* every parameter bounded by 0 and 1; the returned splits are the five
\* optimised values in the order alpha, beta, gamma, delta, epsilon, each
\* within [0, 1], and the returned bc is computed from exactly those five
\* values with the CHO-basis carbon and hydrogen mass fractions.
C11_CalcBiocomp ==
    ncalls > 0 =>
        /\ res.x0 = <<Norm(6, 10), Norm(8, 10), Norm(8, 10), Q(1), Q(1)>>
        /\ Len(res.bounds) = 5
        /\ \A i \in 1..5 : res.bounds[i] = <<Q(0), Q(1)>>
        /\ Len(ret.splits) = 5
        /\ ret.splits = res.x
        /\ \A i \in 1..5 : Within(ret.splits[i], Q(0), Q(1))
        /\ ret.bc = Biocomp(FDiv(self.ult_cho[1], Q(100)),
                            FDiv(self.ult_cho[2], Q(100)),
                            ret.splits[1], ret.splits[2], ret.splits[3],
                            ret.splits[4], ret.splits[5])

\* a call has returned five pairwise different splits for a feedstock with
\* a finite CHO basis
C11_Witness ==
    /\ ncalls > 0
    /\ \A i, j \in 1..5 : i # j => ret.splits[i] # ret.splits[j]
    /\ IsFinite(self.ult_cho[1])
    /\ FGt(self.ult_cho[2], Q(0))

\* C12: after construction no method changes an attribute: over any
\* sequence of calc_biocomp calls the object keeps its post-construction
\* attributes, and every call is given the inputs (yc, yh, chem_bc/100) of
\* the first call.
C12_NoEvolvingState ==
    [][pc = "done" =>
          /\ self' = self
          /\ res'.args = first'
          /\ ncalls > 0 => first' = first]_vars

\* a second call has been made
C12_Witness ==
    /\ ncalls >= 2
    /\ res.args = first
    /\ \A i \in 1..3 : FGt(self.chem_bc[i], Q(0))

\* x * 100 / (100 - y): a value rescaled to the basis without the part y
Rebase(x, y) == FDiv(FMul(x, Q(100)), FSub(Q(100), y))

\* the divisors of the dry and of the dry ash-free basis are not zero
DryDefined(ad, ash, m) ==
    /\ FSub(Q(100), ad[m]) # Q(0)
    /\ FSub(FSub(Q(100), ad[m]), ad[ash]) # Q(0)

\* C16 (amended): the basis conversions agree with one another wherever the
\* divisors 100 - M_ad and 100 - M_ad - ash_ad are not zero:
\* prox_d[i] = prox_ar[i]*100/(100 - M_ar), prox_daf[i] =
\* prox_d[i]*100/(100 - ash_d), and the same for ult_d and ult_daf; and in
\* each of ult_ar, ult_d and ult_daf the hydrogen is (H_ad - 0.1119*M_ad) and
\* the oxygen (O_ad - 0.8881*M_ad) times the factor that only rescales C, N,
\* S and ash, the two corrections adding up to M_ad.
C16_BasesConsistent ==
    AfterUlt =>
        LET p    == self.prox_ad
            u    == self.ult_ad
            hm   == FMul(Norm(1119, 10000), u[7])
            om   == FMul(Norm(8881, 10000), u[7])
            corr == <<u[1], FSub(u[2], hm), FSub(u[3], om), u[4], u[5], u[6]>>
            f_ar == FDiv(FSub(Q(100), self.ult_ar[7]), FSub(Q(100), u[7]))
        IN  /\ DryDefined(p, 3, 4) =>
                /\ \A i \in 1..3 :
                     FEq(self.prox_d[i], Rebase(self.prox_ar[i], self.prox_ar[4]))
                /\ \A i \in 1..2 :
                     FEq(self.prox_daf[i], Rebase(self.prox_d[i], self.prox_d[3]))
            /\ DryDefined(u, 6, 7) =>
                /\ \A i \in 1..6 :
                     FEq(self.ult_d[i], Rebase(self.ult_ar[i], self.ult_ar[7]))
                /\ \A i \in 1..5 :
                     FEq(self.ult_daf[i], Rebase(self.ult_d[i], self.ult_d[6]))
            /\ FAdd(hm, om) = u[7]
            /\ \A i \in 1..6 :
                 /\ self.ult_ar[i] = FMul(corr[i], f_ar)
                 /\ self.ult_d[i] = Rebase(corr[i], u[7])
            /\ \A i \in 1..5 :
                 self.ult_daf[i] = FDiv(FMul(corr[i], Q(100)),
                                        FSub(FSub(Q(100), u[7]), u[6]))

\* a feedstock with moisture and ash in both analyses, non-zero divisors,
\* and bases that differ from one another
C16_Witness ==
    /\ Constructed
    /\ DryDefined(self.prox_ad, 3, 4)
    /\ DryDefined(self.ult_ad, 6, 7)
    /\ FGt(self.prox_ad[3], Q(0)) /\ FGt(self.prox_ad[4], Q(0))
    /\ FGt(self.ult_ad[6], Q(0)) /\ FGt(self.ult_ad[7], Q(0))
    /\ FGt(self.prox_d[1], self.prox_ar[1])
    /\ FGt(self.prox_daf[1], self.prox_d[1])
    /\ FGt(self.ult_d[2], self.ult_ar[2])
    /\ FGt(self.ult_daf[2], self.ult_d[2])
    /\ FGt(self.ult_ad[2], self.ult_d[2])

\* C16 (as claimed): for every component i, prox_d[i] =
\* prox_ar[i]*100/(100 - M_ar), prox_daf[i] = prox_d[i]*100/(100 - ash_d),
\* ult_d[i] = ult_ar[i]*100/(100 - M_ar) and ult_daf[i] =
\* ult_d[i]*100/(100 - ash_d).
C16_BasesConsistentAlways ==
    AfterUlt =>
        /\ \A i \in 1..3 :
             FEq(self.prox_d[i], Rebase(self.prox_ar[i], self.prox_ar[4]))
        /\ \A i \in 1..2 :
             FEq(self.prox_daf[i], Rebase(self.prox_d[i], self.prox_d[3]))
        /\ \A i \in 1..6 :
             FEq(self.ult_d[i], Rebase(self.ult_ar[i], self.ult_ar[7]))
        /\ \A i \in 1..5 :
             FEq(self.ult_daf[i], Rebase(self.ult_d[i], self.ult_d[6]))

(***************************************************************************)
(* Properties of reactor.py, under SpecReactor                             *)
(***************************************************************************)
\* the loop of a reactor function has been entered
InLoop == rpc \in {"loop", "returned"}

\* the feed state (temp, pressure, y0) of the call
FeedState == [T |-> params.temp, P |-> params.pressure, Y |-> params.y0,
              hist |-> <<>>]

\* C14: run_batch_simulation advances one reactor through the values of
\* time in the order given and records one state after each advance, tagged
\* with that time: the returned states have as many entries as time,
\* states.t equals time element for element, and entry k is the state of
\* the reactor advanced to time[k] from the state reached at time[k-1].
C14_BatchStates ==
    (fn \in BatchFns /\ InLoop) =>
        /\ Len(states) = iter
        /\ \A k \in 1..Len(states) :
             /\ states[k].t = params.time[k]
             /\ states[k].state.hist = SubSeq(params.time, 1, k)
             /\ states[k].state =
                    [(IF k = 1 THEN FeedState ELSE states[k - 1].state)
                        EXCEPT !.hist = Append(@, params.time[k])]
        /\ rpc = "returned" =>
             /\ result = states
             /\ Len(result) = Len(params.time)
             /\ [k \in 1..Len(result) |-> result[k].t] = params.time

\* a batch simulation over at least two time steps has returned
C14_Witness ==
    /\ fn \in BatchFns
    /\ rpc = "returned"
    /\ Len(result) >= 2
    /\ result[2].t > result[1].t
    /\ result[2].state # result[1].state

\* C15: run_cstr_simulation models n_cstrs reactors in series: the returned
\* states have n_cstrs + 1 entries, entry 0 is the feed state, and for each
\* k in 1..n_cstrs the inlet of reactor k is the steady-state outlet of
\* reactor k-1 when reactor k is advanced to its steady state, recorded as
\* entry k; the last entry is the exit of the series.
C15_CstrSeries ==
    (fn = "run_cstr_simulation" /\ InLoop) =>
        /\ Len(states) = iter + 1
        /\ states[1].state = FeedState
        /\ \A k \in 2..Len(states) :
             /\ states[k].state =
                    [states[k - 1].state EXCEPT !.hist =
                        Append(@, FDiv(CstrMass(params.length, params.n_cstrs),
                                       mdot))]
             /\ Len(states[k].state.hist) = k - 1
        /\ iter >= 1 => inlet = states[iter].state
        /\ reactor = states[iter + 1].state
        /\ rpc = "returned" =>
             /\ result = states
             /\ Len(result) = params.n_cstrs + 1
             /\ Len(result[Len(result)].state.hist) = params.n_cstrs

\* a series of at least two CSTRs has returned
C15_Witness ==
    /\ fn = "run_cstr_simulation"
    /\ rpc = "returned"
    /\ params.n_cstrs >= 2
    /\ Len(result) = params.n_cstrs + 1
    /\ result[1].state = FeedState
    /\ result[3].state # result[2].state

\* the object the constructor returns is the one the steps of __init__ build
FeedstockIsConstructed == Constructed => self = Feedstock(data)

\* C13: a Feedstock has the attribute residence_time, equal to
\* data['residenceTime'], exactly when the data has the key; run_cstr_all.py
\* keeps only the entries with the key, so that every feedstock of its list
\* has the attribute and the read feedstock.residence_time in its loop never
\* raises AttributeError
C13_ResidenceTimeOptional ==
    /\ \A k \in 1..Len(fdata) :
         \A f \in {Feedstock(fdata[k])} :
           /\ HasAttr(f, "residence_time") <=> HasResidenceTime(fdata[k])
           /\ HasResidenceTime(fdata[k])
                => f.residence_time = fdata[k].residenceTime[1]
    /\ script = "run_cstr_all.py"
         => /\ err # "AttributeError"
            /\ feedstocks # None
                 => /\ Len(feedstocks) = Len(WithResidenceTime(fdata))
                    /\ \A k \in 1..Len(feedstocks) :
                         HasAttr(feedstocks[k], "residence_time")

\* run_cstr_all.py has dropped an entry without the key and has read the
\* residence time of a feedstock it kept
C13_Witness ==
    /\ script = "run_cstr_all.py"
    /\ dpc = "sim"
    /\ \E k \in 1..Len(fdata) : ~HasResidenceTime(fdata[k])
    /\ Len(feedstocks) < Len(fdata)
    /\ tau = FDiv(feedstocks[fi + 1].residence_time, Q(nCstrs))

\* the total residence time of the reactor in the pass being made
TotalResidenceTime ==
    IF script = "run_cstr_all.py" THEN feedstocks[fi + 1].residence_time
    ELSE Q(20)

\* C17: in run_cstr_all.py and run_cstr_single.py the tau passed to
\* run_cstr_simulation is the total residence time divided by n_cstrs, the
\* residence time of one CSTR: n_cstrs of them add up to the total, the mass
\* flow rate is the mass of one CSTR over tau, and the residence times of
\* the reactors passed on the way to entry k of states add up to
\* (k - 1) * tau, the total at the exit
C17_TauPerCstr ==
    script \in {"run_cstr_all.py", "run_cstr_single.py"} /\ dpc = "sim"
      => /\ params.n_cstrs = nCstrs
         /\ params.tau = FDiv(TotalResidenceTime, Q(nCstrs))
         /\ FSum([k \in 1..nCstrs |-> params.tau]) = TotalResidenceTime
         /\ rpc \in {"loop", "returned"}
              => /\ mdot = FDiv(CstrMass(params.length, nCstrs), params.tau)
                 /\ \A k \in 1..Len(states) :
                      FSum(states[k].state.hist) = FMul(Q(k - 1), params.tau)
         /\ rpc = "returned"
              => FSum(result[nCstrs + 1].state.hist) = TotalResidenceTime

\* run_cstr_all.py has run a series of several CSTRs to its exit for a
\* feedstock with a residence time
C17_Witness ==
    /\ script = "run_cstr_all.py"
    /\ dpc = "sim"
    /\ rpc = "returned"
    /\ nCstrs > 1
    /\ params.tau # TotalResidenceTime
    /\ Len(result) = nCstrs + 1

\* the experimental lumped yields the script reads from the feedstock f
ExpLump(f) ==
    IF script \in {"batch_all.py", "cstr_all.py"} THEN f.lump_yield
    ELSE f.lump2_yield

\* C18: in every figure and fit of the all-feedstock drivers that puts the
\* model next to the experiment, each model value is a mass fraction of the
\* simulation multiplied by 100 exactly once, and the experimental values
\* are the lumped yields of the feedstocks as they are, in wt. %
C18_SameScale ==
    \A e \in 1..Len(drawn) :
      drawn[e].exp # None
        => \A j \in 1..3 :
             /\ Len(drawn[e].model[j]) = Len(feedstocks)
             /\ Len(drawn[e].exp[j]) = Len(feedstocks)
             /\ \A k \in 1..Len(feedstocks) :
                  /\ drawn[e].model[j][k].x100 = 1
                  /\ drawn[e].exp[j][k] = ExpLump(feedstocks[k])[j]

\* run_batch_all.py, which rescales before its first figure, has drawn the
\* comparison and the fits for two feedstocks
C18_Witness ==
    /\ script = "run_batch_all.py"
    /\ Len(feedstocks) = 2
    /\ Len(drawn) = 3
    /\ drawn[2].exp # None
    /\ drawn[3].fig = "fits over ash"
    /\ drawn[3].model[1][2].y = FMul(Q(100), Norm(3, 10))

====
